---- MODULE Spec2Model ----
(***************************************************************************)
(* AttackSurfaceX: the SQLite-backed event store and port-history ledger   *)
(* (logger/storage.py), the change detector (analyzer/diff.py), the risk   *)
(* scorer (analyzer/risk.py) and the pipeline that drives them (main.py).  *)
(*                                                                         *)
(* Optional values (Python None) are sequences of length 0 or 1:           *)
(* None is <<>> and a present value x is <<x>>.  Character-level strings   *)
(* (product, version) are sequences of one-character strings.              *)
(***************************************************************************)
EXTENDS Integers, Sequences, FiniteSets, TLC

VARIABLES
    scans,          \* table scans: rows in insertion order, id = position
    port_events,    \* table port_events: committed rows in insertion order
    hosts,          \* table hosts: committed rows in insertion order
    port_history,   \* table port_history: committed rows, id = position
    clock,          \* last value datetime.utcnow() returned
    runs,           \* number of invocations of main so far
    pc,             \* position of the running main(), "idle" between runs
    target,         \* args.target of the running main()
    events,         \* the parsed event list of the running main()
    scan_id,        \* the scan id create_scan returned to main()
    changes,        \* main's `changes` dict
    risks,          \* main's `risks` list
    outcome,        \* how the last main() ended / what it is doing
    call,           \* a direct call of the scorer or the change detector
    failed_ingest   \* history: the store_events calls that raised, and
                    \* whether their rollback discarded a port event, a
                    \* host event and a ledger update

vars == <<scans, port_events, hosts, port_history, clock, runs, pc, target,
          events, scan_id, changes, risks, outcome, call, failed_ingest>>

dbvars == <<scans, port_events, hosts, port_history>>

(***************************************************************************)
(* Bounds of the model.                                                    *)
(***************************************************************************)
MaxRuns == 2
MaxBatch == 2

None == <<>>
Some(x) == <<x>>

(***************************************************************************)
(* Event model (parser/events.py).                                         *)
(***************************************************************************)
HostDiscoveredEvent(host, timestamp, latency_ms) ==
    [event_type |-> "host_discovered", host |-> host, timestamp |-> timestamp,
     latency_ms |-> latency_ms]

PortStateEvent(host, timestamp, port, protocol, state, service, product, version) ==
    [event_type |-> "port_state", host |-> host, timestamp |-> timestamp,
     port |-> port, protocol |-> protocol, state |-> state,
     service |-> service, product |-> product, version |-> version]

IsHostDiscoveredEvent(e) == e.event_type = "host_discovered"
IsPortStateEvent(e) == e.event_type = "port_state"

Key(e) == <<e.host, e.port, e.protocol>>

\* datetime.isoformat(): the ISO-8601 text of an instant.  The instants here
\* are naive UTC datetimes (datetime.utcnow()), whose texts are distinct for
\* distinct instants and compare, as strings, in the order of the instants.
Isoformat(instant) == [iso |-> instant]
IsoLeq(a, b) == a.iso <= b.iso

(***************************************************************************)
(* StorageEngine (logger/storage.py).                                      *)
(***************************************************************************)

\* _update_port_history: SELECT id, seen_count ... fetchone(), then UPDATE
\* the row found or INSERT a new one.
HistoryMatches(ph, host, port, protocol) ==
    {i \in 1..Len(ph) :
        ph[i].host = host /\ ph[i].port = port /\ ph[i].protocol = protocol}

FetchOne(ph, host, port, protocol) ==
    LET m == HistoryMatches(ph, host, port, protocol)
    IN  IF m = {} THEN None
        ELSE Some(ph[CHOOSE i \in m : \A j \in m : i <= j])

\* Faulty variant: the UPDATE writes back the seen_count it read.
_update_port_history_NoIncrement(ph, event) ==
    LET timestamp == Isoformat(event.timestamp)
        result == FetchOne(ph, event.host, event.port, event.protocol)
    IN  IF result # None
        THEN [i \in 1..Len(ph) |->
                IF ph[i].id = result[1].id
                THEN [ph[i] EXCEPT !.last_seen = timestamp,
                                   !.current_state = event.state]
                ELSE ph[i]]
        ELSE Append(ph, [id |-> Len(ph) + 1,
                         host |-> event.host, port |-> event.port,
                         protocol |-> event.protocol,
                         first_seen |-> timestamp, last_seen |-> timestamp,
                         seen_count |-> 1, current_state |-> event.state])

\* Faulty variant: the INSERT starts the record at seen_count 0.
_update_port_history_InsertZero(ph, event) ==
    LET timestamp == Isoformat(event.timestamp)
        result == FetchOne(ph, event.host, event.port, event.protocol)
    IN  IF result # None
        THEN [i \in 1..Len(ph) |->
                IF ph[i].id = result[1].id
                THEN [ph[i] EXCEPT !.last_seen = timestamp,
                                   !.seen_count = result[1].seen_count + 1,
                                   !.current_state = event.state]
                ELSE ph[i]]
        ELSE Append(ph, [id |-> Len(ph) + 1,
                         host |-> event.host, port |-> event.port,
                         protocol |-> event.protocol,
                         first_seen |-> timestamp, last_seen |-> timestamp,
                         seen_count |-> 0, current_state |-> event.state])

\* Faulty variant: the UPDATE sets first_seen as well.
_update_port_history_ResetsFirstSeen(ph, event) ==
    LET timestamp == Isoformat(event.timestamp)
        result == FetchOne(ph, event.host, event.port, event.protocol)
    IN  IF result # None
        THEN [i \in 1..Len(ph) |->
                IF ph[i].id = result[1].id
                THEN [ph[i] EXCEPT !.first_seen = timestamp,
                                   !.last_seen = timestamp,
                                   !.seen_count = result[1].seen_count + 1,
                                   !.current_state = event.state]
                ELSE ph[i]]
        ELSE Append(ph, [id |-> Len(ph) + 1,
                         host |-> event.host, port |-> event.port,
                         protocol |-> event.protocol,
                         first_seen |-> timestamp, last_seen |-> timestamp,
                         seen_count |-> 1, current_state |-> event.state])

_update_port_history(ph, event) ==
    LET timestamp == Isoformat(event.timestamp)
        result == FetchOne(ph, event.host, event.port, event.protocol)
    IN  IF result # None
        THEN LET port_id == result[1].id
                 seen_count == result[1].seen_count
             IN  [i \in 1..Len(ph) |->
                    IF ph[i].id = port_id
                    THEN [ph[i] EXCEPT !.last_seen = timestamp,
                                       !.seen_count = seen_count + 1,
                                       !.current_state = event.state]
                    ELSE ph[i]]
        ELSE Append(ph, [id |-> Len(ph) + 1,
                         host |-> event.host, port |-> event.port,
                         protocol |-> event.protocol,
                         first_seen |-> timestamp, last_seen |-> timestamp,
                         seen_count |-> 1, current_state |-> event.state])

PortEventRow(sid, event) ==
    [scan_id |-> sid, host |-> event.host, port |-> event.port,
     protocol |-> event.protocol, state |-> event.state,
     service |-> event.service, product |-> event.product,
     version |-> event.version, timestamp |-> Isoformat(event.timestamp)]

\* Faulty variant: the ledger is updated for every port event, open or not.
store_event_AnyState(tx, sid, event) ==
    IF IsHostDiscoveredEvent(event)
    THEN [tx EXCEPT !.hosts = Append(@, [scan_id |-> sid, host |-> event.host])]
    ELSE IF IsPortStateEvent(event)
    THEN [tx EXCEPT !.port_events = Append(@, PortEventRow(sid, event)),
                    !.port_history = _update_port_history(@, event)]
    ELSE tx

\* Faulty variant: the port event is stored and the ledger is not updated.
store_event_NoLedger(tx, sid, event) ==
    IF IsHostDiscoveredEvent(event)
    THEN [tx EXCEPT !.hosts = Append(@, [scan_id |-> sid, host |-> event.host])]
    ELSE IF IsPortStateEvent(event)
    THEN [tx EXCEPT !.port_events = Append(@, PortEventRow(sid, event))]
    ELSE tx

\* One iteration of the loop of store_events, on the open transaction tx.
store_event(tx, sid, event) ==
    IF IsHostDiscoveredEvent(event)
    THEN [tx EXCEPT !.hosts = Append(@, [scan_id |-> sid, host |-> event.host])]
    ELSE IF IsPortStateEvent(event)
    THEN LET tx1 == [tx EXCEPT !.port_events = Append(@, PortEventRow(sid, event))]
         IN  IF event.state = "open"
             THEN [tx1 EXCEPT !.port_history = _update_port_history(@, event)]
             ELSE tx1
    ELSE tx

\* Faulty variant: the loop walks the batch from its last event to its first.
RECURSIVE ApplyEvents_LastFirst(_, _, _, _)
ApplyEvents_LastFirst(tx, sid, evs, n) ==
    IF n = 0 THEN tx
    ELSE ApplyEvents_LastFirst(store_event(tx, sid, evs[n]), sid, evs, n - 1)

RECURSIVE ApplyEvents(_, _, _, _)
ApplyEvents(tx, sid, evs, n) ==
    IF n = 0 THEN tx
    ELSE store_event(ApplyEvents(tx, sid, evs, n - 1), sid, evs[n])

\* Faulty variant: what was written before the error stays committed.
store_events_NoRollback(db, sid, evs, fail_at) ==
    LET written == IF fail_at = 0 THEN Len(evs) ELSE fail_at - 1
        tx == ApplyEvents(db, sid, evs, written)
    IN  [db |-> tx, raised |-> fail_at # 0, tx |-> tx]

\* store_events: all events of the batch inside one `with sqlite3.connect()`
\* block, which commits when the block ends normally and rolls back when an
\* exception leaves it.  fail_at = 0: no error.  fail_at = k in 1..Len(evs): a
\* sqlite3.Error is raised while the k-th event is written.  fail_at =
\* Len(evs) + 1: the commit itself fails.
store_events(db, sid, evs, fail_at) ==
    LET written == IF fail_at = 0 THEN Len(evs) ELSE fail_at - 1
        tx == ApplyEvents(db, sid, evs, written)
    IN  IF fail_at = 0
        THEN [db |-> tx, raised |-> FALSE, tx |-> tx]   \* __exit__: commit
        ELSE [db |-> db, raised |-> TRUE, tx |-> tx]    \* __exit__: rollback, re-raise

\* Faulty variant: the record is written with the status "running".
create_scan_StatusRunning(sc, tgt, utcnow, status) ==
    Append(sc, [id |-> Len(sc) + 1, target_address |-> tgt,
                timestamp |-> Isoformat(utcnow), status |-> "running"])

\* create_scan: INSERT INTO scans, status defaults to "completed".
create_scan(sc, tgt, utcnow, status) ==
    Append(sc, [id |-> Len(sc) + 1, target_address |-> tgt,
                timestamp |-> Isoformat(utcnow), status |-> status])

\* get_last_scan: WHERE target_address = ? AND status = 'completed'
\* ORDER BY timestamp DESC LIMIT 1.
get_last_scan(sc, tgt) ==
    LET rows == {i \in 1..Len(sc) :
                    sc[i].target_address = tgt /\ sc[i].status = "completed"}
    IN  IF rows = {} THEN None
        ELSE Some(sc[CHOOSE i \in rows :
                        \A j \in rows : IsoLeq(sc[j].timestamp, sc[i].timestamp)])

\* get_port_history: SELECT * ... fetchone().
get_port_history(ph, host, port, protocol) == FetchOne(ph, host, port, protocol)

(***************************************************************************)
(* ChangeDetector (analyzer/diff.py).                                      *)
(***************************************************************************)
\* Faulty variant: the query has no state filter.
_get_ports_for_scan_AnyState(pe, sid) ==
    {<<pe[i].host, pe[i].port>> : i \in {j \in 1..Len(pe) : pe[j].scan_id = sid}}

\* Faulty variant: the query has no scan_id filter.
_get_ports_for_scan_AnyScan(pe, sid) ==
    {<<pe[i].host, pe[i].port>> : i \in {j \in 1..Len(pe) : pe[j].state = "open"}}

\* Faulty variant: the query also selects the protocol.
_get_ports_for_scan_WithProtocol(pe, sid) ==
    {<<pe[i].host, pe[i].port, pe[i].protocol>> :
        i \in {j \in 1..Len(pe) : pe[j].scan_id = sid /\ pe[j].state = "open"}}

_get_ports_for_scan(pe, sid) ==
    {<<pe[i].host, pe[i].port>> :
        i \in {j \in 1..Len(pe) : pe[j].scan_id = sid /\ pe[j].state = "open"}}

\* Faulty variant: opened_ports is the whole set of the new scan.
detect_changes_OpenedNotSubtracted(pe, old_scan_id, new_scan_id) ==
    LET old_ports == _get_ports_for_scan(pe, old_scan_id)
        new_ports == _get_ports_for_scan(pe, new_scan_id)
    IN  [opened_ports |-> new_ports,
         closed_ports |-> old_ports \ new_ports]

\* Faulty variant: both sets are the symmetric difference.
detect_changes_SymmetricDifference(pe, old_scan_id, new_scan_id) ==
    LET old_ports == _get_ports_for_scan(pe, old_scan_id)
        new_ports == _get_ports_for_scan(pe, new_scan_id)
        changed == (new_ports \ old_ports) \cup (old_ports \ new_ports)
    IN  [opened_ports |-> changed, closed_ports |-> changed]

detect_changes(pe, old_scan_id, new_scan_id) ==
    LET old_ports == _get_ports_for_scan(pe, old_scan_id)
        new_ports == _get_ports_for_scan(pe, new_scan_id)
    IN  [opened_ports |-> new_ports \ old_ports,
         closed_ports |-> old_ports \ new_ports]

(***************************************************************************)
(* Strings as sequences of characters: str.lower, `in`, split, float.      *)
(***************************************************************************)
UpperChars == <<"A", "B", "C", "D", "E", "F", "G", "H", "I", "J", "K", "L", "M",
                "N", "O", "P", "Q", "R", "S", "T", "U", "V", "W", "X", "Y", "Z">>
LowerChars == <<"a", "b", "c", "d", "e", "f", "g", "h", "i", "j", "k", "l", "m",
                "n", "o", "p", "q", "r", "s", "t", "u", "v", "w", "x", "y", "z">>
DigitChars == <<"0", "1", "2", "3", "4", "5", "6", "7", "8", "9">>

LowerChar(c) ==
    IF \E i \in 1..Len(UpperChars) : UpperChars[i] = c
    THEN LowerChars[CHOOSE i \in 1..Len(UpperChars) : UpperChars[i] = c]
    ELSE c

\* str.lower()
Lower(s) == [i \in 1..Len(s) |-> LowerChar(s[i])]

\* sub in s
Contains(s, sub) ==
    \E i \in 0..(Len(s) - Len(sub)) : SubSeq(s, i + 1, i + Len(sub)) = sub

\* s.split('.')[0]: the text before the first '.', the whole of s without one.
SplitDotFirst(s) ==
    IF \E i \in 1..Len(s) : s[i] = "."
    THEN SubSeq(s, 1, (CHOOSE i \in 1..Len(s) :
                          s[i] = "." /\ \A j \in 1..(i - 1) : s[j] # ".") - 1)
    ELSE s

IsDigit(c) == \E i \in 1..Len(DigitChars) : DigitChars[i] = c
DigitVal(c) == (CHOOSE i \in 1..Len(DigitChars) : DigitChars[i] = c) - 1

RECURSIVE DigitsVal(_)
DigitsVal(s) ==
    IF s = <<>> THEN 0
    ELSE 10 * DigitsVal(SubSeq(s, 1, Len(s) - 1)) + DigitVal(s[Len(s)])

Str_inf == <<"i", "n", "f">>
Str_infinity == <<"i", "n", "f", "i", "n", "i", "t", "y">>
Str_nan == <<"n", "a", "n">>

\* float(s) for a text without '.': None stands for ValueError.  The texts
\* float() accepts here are an optional sign followed by one or more digits
\* or by inf, infinity or nan in any case.  (It also accepts surrounding
\* whitespace, '_' between digits and an exponent; the versions of the model
\* hold none of them.)
ParseFloat(s) ==
    LET signed == s # <<>> /\ s[1] \in {"-", "+"}
        neg == s # <<>> /\ s[1] = "-"
        body == IF signed THEN SubSeq(s, 2, Len(s)) ELSE s
    IN  IF body # <<>> /\ \A i \in 1..Len(body) : IsDigit(body[i])
        THEN Some([kind |-> "finite",
                   val |-> IF neg THEN 0 - DigitsVal(body) ELSE DigitsVal(body)])
        ELSE IF Lower(body) \in {Str_inf, Str_infinity}
        THEN Some([kind |-> "inf", val |-> IF neg THEN -1 ELSE 1])
        ELSE IF Lower(body) = Str_nan
        THEN Some([kind |-> "nan", val |-> 0])
        ELSE None

\* x < n for a float x and an integer n: nan is less than nothing.
FloatLess(x, n) ==
    CASE x.kind = "finite" -> x.val < n
      [] x.kind = "inf" -> x.val < 0
      [] x.kind = "nan" -> FALSE

Str_openssh == <<"o", "p", "e", "n", "s", "s", "h">>
Str_apache == <<"a", "p", "a", "c", "h", "e">>
Str_2_2 == <<"2", ".", "2">>
Str_2_0 == <<"2", ".", "0">>

\* Truth value of an Optional[str] held as characters: None and "" are false.
Truthy(opt) == opt # None /\ opt[1] # <<>>

(***************************************************************************)
(* RiskScorer (analyzer/risk.py).                                          *)
(***************************************************************************)
SERVICE_RISK ==
    ("telnet" :> 10) @@ ("ftp" :> 9) @@ ("tftp" :> 9) @@ ("rlogin" :> 10) @@
    ("rsh" :> 10) @@ ("pptp" :> 9) @@
    ("rdp" :> 8) @@ ("vnc" :> 8) @@ ("smb" :> 8) @@ ("microsoft-ds" :> 8) @@
    ("netbios-ssn" :> 7) @@
    ("smtp" :> 6) @@ ("pop3" :> 6) @@ ("imap" :> 5) @@
    ("ssh" :> 4) @@ ("mysql" :> 5) @@ ("postgresql" :> 5) @@ ("mssql" :> 5) @@
    ("oracle" :> 5) @@
    ("http" :> 3) @@ ("http-proxy" :> 3) @@ ("apache" :> 3) @@
    ("https" :> 2) @@ ("ssh-tunnel" :> 2) @@ ("domain" :> 1)

PRIVILEGED_PORTS == 1..1023
EPHEMERAL_PORTS == 49152..65535
COMMON_BACKDOOR_PORTS == {31337, 12345, 54321, 1337, 6666, 6667}

\* SERVICE_RISK.get(event.service, 2)
BaseRisk(service) ==
    IF service # None /\ service[1] \in DOMAIN SERVICE_RISK
    THEN SERVICE_RISK[service[1]]
    ELSE 2

\* Faulty variant: the backdoor ports add nothing.
_apply_port_modifiers_NoBackdoor(score, port) ==
    score + (IF port \in PRIVILEGED_PORTS THEN 1 ELSE 0)
          + (IF port \in EPHEMERAL_PORTS THEN 2 ELSE 0)

\* Faulty variant: the three tests are an if/elif chain.
_apply_port_modifiers_FirstOnly(score, port) ==
    score + (IF port \in PRIVILEGED_PORTS THEN 1
             ELSE IF port \in COMMON_BACKDOOR_PORTS THEN 3
             ELSE IF port \in EPHEMERAL_PORTS THEN 2
             ELSE 0)

_apply_port_modifiers(score, port) ==
    score + (IF port \in PRIVILEGED_PORTS THEN 1 ELSE 0)
          + (IF port \in COMMON_BACKDOOR_PORTS THEN 3 ELSE 0)
          + (IF port \in EPHEMERAL_PORTS THEN 2 ELSE 0)

\* Faulty variant: an established port gets no reduction.
_apply_history_modifiers_NoEstablished(score, history) ==
    IF history = None
    THEN score + 2
    ELSE score + (IF history[1].seen_count <= 2 THEN 3 ELSE 0)
               + (IF history[1].current_state = "closed" THEN 2 ELSE 0)

\* Faulty variant: the 'closed' test is one more elif of the seen_count chain.
_apply_history_modifiers_ClosedElif(score, history) ==
    IF history = None
    THEN score + 2
    ELSE LET seen_count == history[1].seen_count
         IN  score + (IF seen_count <= 2 THEN 3
                      ELSE IF seen_count >= 10 THEN -1
                      ELSE IF history[1].current_state = "closed" THEN 2
                      ELSE 0)

_apply_history_modifiers(score, history) ==
    IF history = None
    THEN score + 2
    ELSE LET seen_count == history[1].seen_count
         IN  score + (IF seen_count <= 2 THEN 3
                      ELSE IF seen_count >= 10 THEN -1 ELSE 0)
                   + (IF history[1].current_state = "closed" THEN 2 ELSE 0)

\* Faulty variant: a version number that does not parse counts as 0.
_apply_version_modifiers_UnparsedIsZero(score, event) ==
    LET has_version == Truthy(event.version)
        product_lower == IF Truthy(event.product) THEN Lower(event.product[1]) ELSE <<>>
        version_num == IF has_version
                       THEN ParseFloat(SplitDotFirst(event.version[1]))
                       ELSE None
    IN  score
        + (IF ~has_version THEN 1 ELSE 0)
        + (IF /\ Truthy(event.product)
              /\ Contains(product_lower, Str_openssh)
              /\ has_version
              /\ (version_num = None \/ FloatLess(version_num[1], 7))
           THEN 2 ELSE 0)
        + (IF /\ Truthy(event.product)
              /\ Contains(product_lower, Str_apache)
              /\ has_version
              /\ (Contains(event.version[1], Str_2_2) \/ Contains(event.version[1], Str_2_0))
           THEN 2 ELSE 0)

_apply_version_modifiers(score, event) ==
    LET has_version == Truthy(event.version)
        product_lower == IF Truthy(event.product) THEN Lower(event.product[1]) ELSE <<>>
        version_num == IF has_version
                       THEN ParseFloat(SplitDotFirst(event.version[1]))
                       ELSE None
    IN  score
        + (IF ~has_version THEN 1 ELSE 0)
        + (IF /\ Truthy(event.product)
              /\ Contains(product_lower, Str_openssh)
              /\ has_version
              /\ version_num # None
              /\ FloatLess(version_num[1], 7)
           THEN 2 ELSE 0)
        + (IF /\ Truthy(event.product)
              /\ Contains(product_lower, Str_apache)
              /\ has_version
              /\ (Contains(event.version[1], Str_2_2) \/ Contains(event.version[1], Str_2_0))
           THEN 2 ELSE 0)

Min(a, b) == IF a <= b THEN a ELSE b

\* Faulty variant: the result is not clamped to 10.
score_event_NoClamp(event, port_history_row) ==
    IF event.state # "open"
    THEN 0
    ELSE _apply_version_modifiers(
             _apply_history_modifiers(
                 _apply_port_modifiers(BaseRisk(event.service), event.port),
                 port_history_row),
             event)

\* Faulty variant: events that are not open are scored like open ones.
score_event_IgnoresState(event, port_history_row) ==
    Min(_apply_version_modifiers(
            _apply_history_modifiers(
                _apply_port_modifiers(BaseRisk(event.service), event.port),
                port_history_row),
            event),
        10)

score_event(event, port_history_row) ==
    IF event.state # "open"
    THEN 0
    ELSE Min(_apply_version_modifiers(
                 _apply_history_modifiers(
                     _apply_port_modifiers(BaseRisk(event.service), event.port),
                     port_history_row),
                 event),
             10)

\* The values the local `score` of score_event takes: after the table
\* lookup and after each of the three modifier calls; none when the event is
\* not open.
score_event_locals(event, port_history_row) ==
    IF event.state # "open"
    THEN <<>>
    ELSE LET base == BaseRisk(event.service)
             ported == _apply_port_modifiers(base, event.port)
             historied == _apply_history_modifiers(ported, port_history_row)
             versioned == _apply_version_modifiers(historied, event)
         IN  <<base, ported, historied, versioned>>

_get_risk_factors(event, history, risk_score) ==
    LET service == IF event.service = None THEN "" ELSE event.service[1]
        f1 == IF event.service # None /\ service \in {"telnet", "ftp", "rlogin", "rsh"}
              THEN <<"Unencrypted legacy protocol">>
              ELSE IF event.service # None /\ service \in {"rdp", "smb", "vnc"}
              THEN <<"Common attack vector">>
              ELSE <<>>
        f2 == IF event.port \in COMMON_BACKDOOR_PORTS
              THEN <<"Known backdoor port">> ELSE <<>>
        f3 == IF event.port \in EPHEMERAL_PORTS
              THEN <<"Unusual port for services">> ELSE <<>>
        f4 == IF history # None
              THEN (IF history[1].seen_count <= 2
                    THEN <<"Recently appeared">> ELSE <<>>)
                   \o (IF history[1].current_state = "closed"
                       THEN <<"Port reopened">> ELSE <<>>)
              ELSE <<"First time detected">>
        f5 == IF ~Truthy(event.version) THEN <<"Version unknown">> ELSE <<>>
        factors == f1 \o f2 \o f3 \o f4 \o f5
    IN  IF factors = <<>> THEN <<"Standard risk for this service">> ELSE factors

\* port_histories.get(history_key)
HistoryFor(port_histories, event) ==
    IF Key(event) \in DOMAIN port_histories THEN Some(port_histories[Key(event)]) ELSE None

Assessment(event, history) ==
    LET risk == score_event(event, history)
    IN  [host |-> event.host, port |-> event.port,
         service |-> IF event.service = None \/ event.service = Some("")
                     THEN "unknown" ELSE event.service[1],
         product |-> event.product, version |-> event.version,
         risk |-> risk,
         risk_factors |-> _get_risk_factors(event, history, risk)]

\* Faulty variant: sorted ascending and then reversed, which turns around
\* the elements of equal risk.
RECURSIVE SortByRisk_AscendingReversed(_)
SortByRisk_AscendingReversed(rs) ==
    IF rs = <<>> THEN <<>>
    ELSE LET front == SortByRisk_AscendingReversed(SubSeq(rs, 1, Len(rs) - 1))
             x == rs[Len(rs)]
             n == Cardinality({i \in 1..Len(front) : front[i].risk > x.risk})
         IN  SubSeq(front, 1, n) \o <<x>> \o SubSeq(front, n + 1, Len(front))

\* results.sort(key=risk, reverse=True): stable, so an element goes behind
\* every element whose risk is at least its own.
RECURSIVE SortByRisk(_)
SortByRisk(rs) ==
    IF rs = <<>> THEN <<>>
    ELSE LET front == SortByRisk(SubSeq(rs, 1, Len(rs) - 1))
             x == rs[Len(rs)]
             n == Cardinality({i \in 1..Len(front) : front[i].risk >= x.risk})
         IN  SubSeq(front, 1, n) \o <<x>> \o SubSeq(front, n + 1, Len(front))

RECURSIVE ScoreLoop(_, _, _)
ScoreLoop(evs, port_histories, n) ==
    IF n = 0 THEN <<>>
    ELSE LET results == ScoreLoop(evs, port_histories, n - 1)
             history == HistoryFor(port_histories, evs[n])
         IN  IF score_event(evs[n], history) > 0
             THEN Append(results, Assessment(evs[n], history))
             ELSE results

score_events(evs, port_histories) ==
    SortByRisk(ScoreLoop(evs, port_histories, Len(evs)))

(***************************************************************************)
(* Inputs of the model.                                                    *)
(***************************************************************************)
Targets == {"t1"}

\* The events of one <host> element of the scan output (timestamp set by
\* the parser): its HostDiscoveredEvent and its <port> elements.
HostEvent(ts) == HostDiscoveredEvent("h1", ts, None)

EventKinds(ts) ==
    { PortStateEvent("h1", ts, 80, "tcp", "open", Some("http"), None, None),
      PortStateEvent("h1", ts, 443, "tcp", "open", Some("https"), None, None),
      PortStateEvent("h1", ts, 80, "tcp", "closed", Some("http"), None, None) }

RECURSIVE SeqsUpTo(_, _)
SeqsUpTo(S, n) ==
    IF n = 0 THEN {<<>>}
    ELSE LET shorter == SeqsUpTo(S, n - 1)
         IN  shorter \cup {Append(s, x) : s \in {t \in shorter : Len(t) = n - 1}, x \in S}

\* _extract_events appends, for each host element, what _parse_host returns:
\* the host's HostDiscoveredEvent and then its port events.  The scans of
\* the model report no host or one host with up to MaxBatch ports.
Batches(ts) ==
    {<<>>} \cup { <<HostEvent(ts)>> \o ports : ports \in SeqsUpTo(EventKinds(ts), MaxBatch) }

NoChanges == [opened_ports |-> {}, closed_ports |-> {}]

(***************************************************************************)
(* main (main.py): one run of the pipeline, one action per call it makes.  *)
(***************************************************************************)
Init ==
    /\ scans = <<>>
    /\ port_events = <<>>
    /\ hosts = <<>>
    /\ port_history = <<>>
    /\ clock = 0
    /\ runs = 0
    /\ pc = "idle"
    /\ target = ""
    /\ events = <<>>
    /\ scan_id = 0
    /\ changes = NoChanges
    /\ risks = <<>>
    /\ outcome = "none"
    /\ call = [op |-> "none", at |-> "none"]
    /\ failed_ingest = {}

\* main returns: its local variables are gone.
Return(how) ==
    /\ pc' = "idle"
    /\ outcome' = how
    /\ target' = ""
    /\ events' = <<>>
    /\ scan_id' = 0
    /\ changes' = NoChanges
    /\ risks' = <<>>

\* runner.run_scan and handle_scan_result: a failed scan and a dry run end
\* main before anything is parsed or stored.
RunScan ==
    /\ pc = "idle"
    /\ runs < MaxRuns
    /\ \E t \in Targets, result \in {"ok", "failed", "dry_run"} :
         /\ runs' = runs + 1
         /\ IF result = "ok"
            THEN /\ target' = t
                 /\ pc' = "scanned"
                 /\ outcome' = "running"
                 /\ UNCHANGED <<events, scan_id, changes, risks>>
            ELSE Return(result)
    /\ UNCHANGED <<dbvars, clock, call, failed_ingest>>

\* parser_obj.parse: the events of the scan, all stamped with one utcnow(),
\* or a ParseError that ends main.
Parse ==
    /\ pc = "scanned"
    /\ \/ /\ clock' = clock + 1
          /\ \E batch \in Batches(clock + 1) : events' = batch
          /\ pc' = "parsed"
          /\ UNCHANGED outcome
          /\ UNCHANGED <<scan_id, changes, risks>>
          /\ UNCHANGED target
       \/ /\ Return("parse_error")
          /\ UNCHANGED clock
    /\ UNCHANGED <<dbvars, runs, call, failed_ingest>>

\* storage.create_scan(target, profile, duration): status "completed".
CreateScan ==
    /\ pc = "parsed"
    /\ clock' = clock + 1
    /\ \/ /\ scans' = create_scan(scans, target, clock + 1, "completed")
          /\ scan_id' = Len(scans) + 1
          /\ pc' = "created"
          /\ UNCHANGED <<outcome, target, events, changes, risks>>
       \/ /\ Return("storage_error")
          /\ UNCHANGED scans
    /\ UNCHANGED <<port_events, hosts, port_history, runs, call, failed_ingest>>

\* storage.store_events(scan_id, events); an exception ends main with 1.
StoreEvents ==
    /\ pc = "created"
    /\ \E fail_at \in 0..(Len(events) + 1) :
         LET db == [port_events |-> port_events, hosts |-> hosts,
                    port_history |-> port_history]
             r == store_events(db, scan_id, events, fail_at)
         IN  /\ port_events' = r.db.port_events
             /\ hosts' = r.db.hosts
             /\ port_history' = r.db.port_history
             /\ IF r.raised
                THEN /\ Return("storage_error")
                     /\ failed_ingest' = failed_ingest \cup
                          {[scan_id |-> scan_id,
                            discarded |->
                                /\ Len(r.tx.port_events) > Len(port_events)
                                /\ Len(r.tx.hosts) > Len(hosts)
                                /\ r.tx.port_history # port_history]}
                ELSE /\ pc' = "stored"
                     /\ UNCHANGED <<outcome, target, events, scan_id, changes,
                                    risks, failed_ingest>>
    /\ UNCHANGED <<scans, clock, runs, call>>

\* Change detection: get_last_scan(target), then detect_changes against the
\* new scan unless the last scan is the new scan itself.
ChangeDetection ==
    /\ pc = "stored"
    /\ LET last_scan == get_last_scan(scans, target)
       IN  changes' = IF last_scan # None /\ last_scan[1].id # scan_id
                      THEN detect_changes(port_events, last_scan[1].id, scan_id)
                      ELSE NoChanges
    /\ pc' = "diffed"
    /\ UNCHANGED <<dbvars, clock, runs, target, events, scan_id, risks, outcome, call, failed_ingest>>

\* Risk scoring: get_port_history for every port event of the run, then
\* score_events with the histories found.
RECURSIVE SelectSeq2(_, _)
SelectSeq2(seq, n) ==
    IF n = 0 THEN <<>>
    ELSE IF IsPortStateEvent(seq[n])
         THEN Append(SelectSeq2(seq, n - 1), seq[n])
         ELSE SelectSeq2(seq, n - 1)

PortEventsOf(evs) == SelectSeq2(evs, Len(evs))

PortHistoriesOf(ph, evs) ==
    LET found == {i \in 1..Len(evs) :
                    get_port_history(ph, evs[i].host, evs[i].port, evs[i].protocol) # None}
    IN  [k \in {Key(evs[i]) : i \in found} |->
            get_port_history(ph, k[1], k[2], k[3])[1]]

Score ==
    /\ pc = "diffed"
    /\ LET pes == PortEventsOf(events)
       IN  risks' = score_events(pes, PortHistoriesOf(port_history, pes))
    /\ pc' = "scored"
    /\ UNCHANGED <<dbvars, clock, runs, target, events, scan_id, changes, outcome, call, failed_ingest>>

\* The reports are written and main returns 0.
Finish ==
    /\ pc = "scored"
    /\ Return("ok")
    /\ UNCHANGED <<dbvars, clock, runs, call, failed_ingest>>

Next ==
    \/ RunScan
    \/ Parse
    \/ CreateScan
    \/ StoreEvents
    \/ ChangeDetection
    \/ Score
    \/ Finish

Spec == Init /\ [][Next]_vars

(***************************************************************************)
(* The scorer called directly: score_event and score_events are pure, so   *)
(* their inputs are drawn from the sets below and the call is recorded.    *)
(***************************************************************************)
MaxSeen == 15
MaxScoreBatch == 2

Str_OpenSSH == <<"O", "p", "e", "n", "S", "S", "H">>
Str_Apache_httpd == <<"A", "p", "a", "c", "h", "e", " ", "h", "t", "t", "p", "d">>
Str_6_6 == <<"6", ".", "6">>
Str_7_4 == <<"7", ".", "4">>
Str_2_2_15 == <<"2", ".", "2", ".", "1", "5">>
Str_x_1 == <<"x", ".", "1">>
Str_10_2 == <<"1", "0", ".", "2">>
Str_6p1 == <<"6", "p", "1">>
Str_minus_inf == <<"-", "i", "n", "f">>

ScoreStates == {"open", "closed", "filtered"}
ScoreServices == {None, Some("telnet"), Some("ssh"), Some("domain"), Some("TELNET")}
\* Ports at and around the ends of the privileged and ephemeral ranges,
\* backdoor ports inside and outside the ephemeral range, and plain ports.
ScorePorts == {0, 1, 22, 23, 1023, 1024, 1337, 5353, 31337, 49151, 49152, 54321, 65535}
ScoreProducts == {None, Some(Str_OpenSSH), Some(Str_Apache_httpd)}
ScoreVersions == {None, Some(<<>>), Some(Str_6_6), Some(Str_7_4), Some(Str_2_2_15),
                  Some(Str_x_1), Some(Str_10_2), Some(Str_6p1), Some(Str_minus_inf)}

ScoreInputs ==
    {PortStateEvent("h1", 1, port, "tcp", state, service, product, version) :
        port \in ScorePorts, state \in ScoreStates, service \in ScoreServices,
        product \in ScoreProducts, version \in ScoreVersions}

HistoryRow(seen_count, current_state) ==
    [id |-> 1, host |-> "h1", port |-> 0, protocol |-> "tcp",
     first_seen |-> Isoformat(1), last_seen |-> Isoformat(1),
     seen_count |-> seen_count, current_state |-> current_state]

ScoreHistories ==
    {None} \cup {Some(HistoryRow(n, st)) : n \in 0..MaxSeen, st \in {"open", "closed"}}

\* The events of a scored batch: equal and different risks, open and not.
ScoreBatchEvents ==
    {PortStateEvent("h1", 1, 23, "tcp", "open", Some("telnet"), None, None),
     PortStateEvent("h1", 1, 80, "tcp", "open", Some("http"), None, Some(Str_7_4)),
     PortStateEvent("h2", 1, 8080, "tcp", "open", Some("http"), None, Some(Str_7_4)),
     PortStateEvent("h1", 1, 443, "tcp", "closed", Some("https"), None, None),
     PortStateEvent("h2", 1, 22, "tcp", "filtered", Some("ssh"), Some(Str_OpenSSH), Some(Str_6_6)),
     PortStateEvent("h1", 1, 31337, "tcp", "open", None, None, None),
     PortStateEvent("h1", 1, 69, "udp", "open", Some("tftp"), None, Some(Str_7_4)),
     PortStateEvent("h1", 1, 5353, "udp", "open", Some("domain"), None, Some(Str_7_4))}

ScoreBatchHistories ==
    {<<>>,
     (<<"h1", 80, "tcp">> :> HistoryRow(5, "open")),
     (<<"h1", 80, "tcp">> :> HistoryRow(1, "open"))
        @@ (<<"h1", 443, "tcp">> :> HistoryRow(MaxSeen, "closed")),
     (<<"h1", 5353, "udp">> :> HistoryRow(MaxSeen, "open"))
        @@ (<<"h1", 69, "udp">> :> HistoryRow(MaxSeen, "open"))}

ScoreCalls ==
    {[op |-> "score_event", at |-> "called", event |-> event, history |-> history] :
        event \in ScoreInputs, history \in ScoreHistories}
    \cup
    {[op |-> "score_events", at |-> "called", events |-> evs,
      port_histories |-> port_histories] :
        evs \in SeqsUpTo(ScoreBatchEvents, MaxScoreBatch),
        port_histories \in ScoreBatchHistories}

InitScore ==
    /\ scans = <<>>
    /\ port_events = <<>>
    /\ hosts = <<>>
    /\ port_history = <<>>
    /\ clock = 0
    /\ runs = 0
    /\ pc = "idle"
    /\ target = ""
    /\ events = <<>>
    /\ scan_id = 0
    /\ changes = NoChanges
    /\ risks = <<>>
    /\ outcome = "none"
    /\ call \in ScoreCalls
    /\ failed_ingest = {}

CallScoreEvent ==
    /\ call.op = "score_event"
    /\ call.at = "called"
    /\ call' = [op |-> "score_event", at |-> "returned", event |-> call.event,
                history |-> call.history,
                score |-> score_event_locals(call.event, call.history),
                result |-> score_event(call.event, call.history)]
    /\ UNCHANGED <<dbvars, clock, runs, pc, target, events, scan_id, changes,
                   risks, outcome, failed_ingest>>

CallScoreEvents ==
    /\ call.op = "score_events"
    /\ call.at = "called"
    /\ call' = [op |-> "score_events", at |-> "returned", events |-> call.events,
                port_histories |-> call.port_histories,
                result |-> score_events(call.events, call.port_histories)]
    /\ UNCHANGED <<dbvars, clock, runs, pc, target, events, scan_id, changes,
                   risks, outcome, failed_ingest>>

ScoreNext ==
    \/ CallScoreEvent
    \/ CallScoreEvents

SpecScore == InitScore /\ [][ScoreNext]_vars

(***************************************************************************)
(* The change detector called directly on a store holding two ingested     *)
(* scans: detect_changes reads only port_events, so the two batches and    *)
(* the two scan ids of the call are drawn and the call is recorded.        *)
(***************************************************************************)
DiffEventKinds(ts) ==
    { PortStateEvent("h1", ts, 80, "tcp", "open", Some("http"), None, None),
      PortStateEvent("h1", ts, 80, "udp", "open", None, None, None),
      PortStateEvent("h1", ts, 443, "tcp", "open", Some("https"), None, None),
      PortStateEvent("h1", ts, 80, "tcp", "closed", Some("http"), None, None) }

DiffBatches(ts) == SeqsUpTo(DiffEventKinds(ts), MaxBatch)

\* Scan ids 1 and 2 are the stored scans, 3 is the id of no scan.
DiffScanIds == {1, 2, 3}

UnknownScanId == CHOOSE id \in DiffScanIds : id \notin {1, 2}

EmptyTables == [port_events |-> <<>>, hosts |-> <<>>, port_history |-> <<>>]

InitDiff ==
    \E b1 \in DiffBatches(1), b2 \in DiffBatches(3) :
        LET db1 == store_events(EmptyTables, 1, b1, 0).db
            db2 == store_events(db1, 2, b2, 0).db
        IN  /\ scans = create_scan(create_scan(<<>>, "t1", 2, "completed"),
                                   "t1", 4, "completed")
            /\ port_events = db2.port_events
            /\ hosts = db2.hosts
            /\ port_history = db2.port_history
            /\ clock = 4
            /\ runs = 2
            /\ pc = "idle"
            /\ target = ""
            /\ events = <<>>
            /\ scan_id = 0
            /\ changes = NoChanges
            /\ risks = <<>>
            /\ outcome = "ok"
            /\ failed_ingest = {}
            /\ call \in {[op |-> "detect_changes", at |-> "called",
                          old_scan_id |-> a, new_scan_id |-> b] :
                            a \in DiffScanIds, b \in DiffScanIds}

CallDetectChanges ==
    /\ call.op = "detect_changes"
    /\ call.at = "called"
    /\ call' = [op |-> "detect_changes", at |-> "returned",
                old_scan_id |-> call.old_scan_id, new_scan_id |-> call.new_scan_id,
                result |-> detect_changes(port_events, call.old_scan_id,
                                          call.new_scan_id)]
    /\ UNCHANGED <<dbvars, clock, runs, pc, target, events, scan_id, changes,
                   risks, outcome, failed_ingest>>

DiffNext == CallDetectChanges

SpecDiff == InitDiff /\ [][DiffNext]_vars

(***************************************************************************)
(* store_events called directly on a store that holds one ingested scan:   *)
(* the batch of the call is drawn with timestamps of its own per event, so *)
(* that the order in which the loop applies the events shows in the        *)
(* ledger, and the call is recorded with the tables it found.              *)
(***************************************************************************)
MaxIngestBatch == 3

IngestEventKinds ==
    { HostEvent(5),
      PortStateEvent("h1", 5, 80, "tcp", "open", None, None, None),
      PortStateEvent("h1", 6, 80, "tcp", "open", None, None, None),
      PortStateEvent("h1", 5, 80, "tcp", "closed", None, None, None),
      PortStateEvent("h1", 6, 80, "tcp", "filtered", None, None, None),
      PortStateEvent("h1", 5, 443, "tcp", "open", None, None, None) }

IngestBatches == SeqsUpTo(IngestEventKinds, MaxIngestBatch)

\* What an earlier scan left in the store: nothing, port 80 open, or both
\* ports open.
EarlierBatches ==
    { <<>>,
      <<HostEvent(1), PortStateEvent("h1", 1, 80, "tcp", "open", None, None, None)>>,
      <<HostEvent(1), PortStateEvent("h1", 1, 80, "tcp", "open", None, None, None),
        PortStateEvent("h1", 1, 443, "tcp", "open", None, None, None)>> }

InitIngest ==
    \E b1 \in EarlierBatches, b2 \in IngestBatches :
        LET db1 == store_events(EmptyTables, 1, b1, 0).db
        IN  /\ scans = create_scan(create_scan(<<>>, "t1", 2, "completed"),
                                   "t1", 7, "completed")
            /\ port_events = db1.port_events
            /\ hosts = db1.hosts
            /\ port_history = db1.port_history
            /\ clock = 7
            /\ runs = 2
            /\ pc = "idle"
            /\ target = ""
            /\ events = <<>>
            /\ scan_id = 0
            /\ changes = NoChanges
            /\ risks = <<>>
            /\ outcome = "ok"
            /\ failed_ingest = {}
            /\ call = [op |-> "store_events", at |-> "called", scan_id |-> 2,
                       events |-> b2, before |-> db1, raised |-> FALSE]

\* The whole call: the loop over the batch, then commit, or rollback when an
\* error is raised on the way.
CallStoreEvents ==
    /\ call.op = "store_events"
    /\ call.at = "called"
    /\ \E fail_at \in 0..(Len(call.events) + 1) :
         LET r == store_events(call.before, call.scan_id, call.events, fail_at)
         IN  /\ port_events' = r.db.port_events
             /\ hosts' = r.db.hosts
             /\ port_history' = r.db.port_history
             /\ call' = [call EXCEPT !.at = "returned", !.raised = r.raised]
    /\ UNCHANGED <<scans, clock, runs, pc, target, events, scan_id, changes,
                   risks, outcome, failed_ingest>>

IngestNext == CallStoreEvents

SpecIngest == InitIngest /\ [][IngestNext]_vars

(***************************************************************************)
(* Two processes, each in store_events on its own connection to the same   *)
(* database file.  A connection's first INSERT begins its transaction and  *)
(* takes the database's write lock, which it keeps until the `with` block  *)
(* commits or rolls back; while another connection holds the lock the      *)
(* INSERT waits, and raises sqlite3.OperationalError when the wait times   *)
(* out.  The tables of the model are what is committed; a transaction      *)
(* works on tx, its view of the tables, and commit makes tx the tables.    *)
(* call.procs holds each process's position, call.lock the lock's holder   *)
(* (0: free).                                                              *)
(***************************************************************************)
MaxConcBatch == 2

Procs == {1, 2}

\* Each process parsed its own scan: its events carry its own timestamp.
ConcEventKinds(ts) ==
    { PortStateEvent("h1", ts, 80, "tcp", "open", None, None, None),
      PortStateEvent("h1", ts, 443, "tcp", "open", None, None, None),
      PortStateEvent("h1", ts, 80, "tcp", "closed", None, None, None) }

ConcBatches(ts) == SeqsUpTo(ConcEventKinds(ts), MaxConcBatch)

\* Faulty variant: the INSERT goes ahead whoever holds the lock.
CanWrite_NoLock(lock, proc) == TRUE

\* The first INSERT of a transaction gets the write lock when no other
\* connection holds it.
CanWrite(lock, proc) == lock = 0

Tables == [port_events |-> port_events, hosts |-> hosts, port_history |-> port_history]

InitConc ==
    \E b0 \in EarlierBatches, b1 \in ConcBatches(5), b2 \in ConcBatches(6) :
        LET db0 == store_events(EmptyTables, 1, b0, 0).db
            batch == <<b1, b2>>
        IN  /\ scans = create_scan(create_scan(create_scan(<<>>, "t1", 2, "completed"),
                                               "t1", 7, "completed"), "t1", 8, "completed")
            /\ port_events = db0.port_events
            /\ hosts = db0.hosts
            /\ port_history = db0.port_history
            /\ clock = 8
            /\ runs = 3
            /\ pc = "idle"
            /\ target = ""
            /\ events = <<>>
            /\ scan_id = 0
            /\ changes = NoChanges
            /\ risks = <<>>
            /\ outcome = "ok"
            /\ failed_ingest = {}
            /\ call = [op |-> "store_events", at |-> "concurrent", before |-> db0,
                       lock |-> 0,
                       procs |-> [p \in Procs |->
                                    [at |-> "called", scan_id |-> p + 1,
                                     events |-> batch[p], n |-> 0, tx |-> db0]]]

ConcFrame ==
    UNCHANGED <<scans, clock, runs, pc, target, events, scan_id, changes, risks,
                outcome, failed_ingest>>

\* The loop reaches its first event (or the end of an empty batch, and the
\* block commits a transaction that was never begun): the INSERT begins
\* the transaction on the tables as committed and takes the lock.
FirstInsert(p) ==
    LET me == call.procs[p]
    IN  /\ me.at = "called"
        /\ IF me.events = <<>>
           THEN call' = [call EXCEPT !.procs[p].at = "committed"]
           ELSE /\ CanWrite(call.lock, p)
                /\ call' = [call EXCEPT
                               !.lock = p,
                               !.procs[p].at = "writing",
                               !.procs[p].n = 1,
                               !.procs[p].tx = store_event(Tables, me.scan_id, me.events[1])]
        /\ UNCHANGED dbvars
        /\ ConcFrame

\* The first INSERT waited for the lock until the timeout: "database is
\* locked" is raised, nothing was written, the error leaves store_events.
Locked(p) ==
    LET me == call.procs[p]
    IN  /\ me.at = "called"
        /\ me.events # <<>>
        /\ ~CanWrite(call.lock, p)
        /\ call' = [call EXCEPT !.procs[p].at = "raised"]
        /\ UNCHANGED dbvars
        /\ ConcFrame

\* The next iteration of the loop, inside the transaction.
NextEvent(p) ==
    LET me == call.procs[p]
    IN  /\ me.at = "writing"
        /\ me.n < Len(me.events)
        /\ call' = [call EXCEPT
                       !.procs[p].n = me.n + 1,
                       !.procs[p].tx = store_event(me.tx, me.scan_id, me.events[me.n + 1])]
        /\ UNCHANGED dbvars
        /\ ConcFrame

\* The loop is through: __exit__ commits and the lock is released.
Commit(p) ==
    LET me == call.procs[p]
    IN  /\ me.at = "writing"
        /\ me.n = Len(me.events)
        /\ port_events' = me.tx.port_events
        /\ hosts' = me.tx.hosts
        /\ port_history' = me.tx.port_history
        /\ call' = [call EXCEPT
                       !.lock = IF call.lock = p THEN 0 ELSE call.lock,
                       !.procs[p].at = "committed"]
        /\ UNCHANGED scans
        /\ ConcFrame

\* A statement or the commit raises: __exit__ rolls back and the lock is
\* released.
Rollback(p) ==
    LET me == call.procs[p]
    IN  /\ me.at = "writing"
        /\ call' = [call EXCEPT
                       !.lock = IF call.lock = p THEN 0 ELSE call.lock,
                       !.procs[p].at = "raised"]
        /\ UNCHANGED dbvars
        /\ ConcFrame

ConcNext ==
    \/ \E p \in Procs : FirstInsert(p)
    \/ \E p \in Procs : Locked(p)
    \/ \E p \in Procs : NextEvent(p)
    \/ \E p \in Procs : Commit(p)
    \/ \E p \in Procs : Rollback(p)

SpecConc == InitConc /\ [][ConcNext]_vars

(***************************************************************************)
(* Properties of the store and the ledger.                                 *)
(***************************************************************************)
AllKeys == {<<"h1", port, protocol>> : port \in {80, 443}, protocol \in {"tcp", "udp"}}

\* seen_count of the ledger record of key k, 0 without a record.
SeenCount(ph, k) ==
    LET h == get_port_history(ph, k[1], k[2], k[3])
    IN  IF h = None THEN 0 ELSE h[1].seen_count

HasRecord(ph, k) == get_port_history(ph, k[1], k[2], k[3]) # None

\* The open PortStateEvents for key k in a batch.
OpenSightings(evs, k) ==
    {i \in 1..Len(evs) :
        IsPortStateEvent(evs[i]) /\ evs[i].state = "open" /\ Key(evs[i]) = k}

\* The stored port_events rows for key k with state 'open'.
OpenRows(pe, k) ==
    {i \in 1..Len(pe) :
        pe[i].state = "open" /\ <<pe[i].host, pe[i].port, pe[i].protocol>> = k}

\* This step is a store_events call that committed its batch.
Ingested == pc = "created" /\ pc' = "stored"

\* This step is a store_events call that raised.
IngestFailed == pc = "created" /\ pc' = "idle"

\* C1: every step changes the seen_count of every key by exactly the number
\* of open PortStateEvents a committed store_events call ingested for it (a
\* missing record counting as 0), so N open sightings give seen_count = N and
\* seen_count never decreases.
C1_SeenCountCountsOpenSightings ==
    [][\A k \in AllKeys :
          SeenCount(port_history', k) =
              SeenCount(port_history, k)
                  + (IF Ingested THEN Cardinality(OpenSightings(events, k)) ELSE 0)
      ]_vars

C1_Witness ==
    \E k \in AllKeys : SeenCount(port_history, k) >= 3

\* C2: a ledger record exists for a key exactly when an open event for the
\* key has been ingested (a committed batch holding one creates it, nothing
\* else does), and a record is never deleted.
C2_RecordIffOpenIngested ==
    /\ [](\A k \in AllKeys : HasRecord(port_history, k) <=> OpenRows(port_events, k) # {})
    /\ [][\A k \in AllKeys :
             HasRecord(port_history', k) <=>
                 \/ HasRecord(port_history, k)
                 \/ Ingested /\ OpenSightings(events, k) # {}
         ]_vars

C2_Witness ==
    /\ HasRecord(port_history, <<"h1", 443, "tcp">>)
    /\ ~HasRecord(port_history, <<"h1", 80, "tcp">>)
    /\ \E i \in 1..Len(port_events) :
          /\ port_events[i].port = 80
          /\ port_events[i].state = "closed"

\* C3: a key sighted open exactly once has a ledger record that
\* get_port_history returns with seen_count 1, first_seen and last_seen both
\* the timestamp of that event, and current_state the state of that event.
C3_FirstSightingRecord ==
    \A k \in AllKeys :
        Cardinality(OpenRows(port_events, k)) = 1 =>
            LET row == port_events[CHOOSE i \in OpenRows(port_events, k) : TRUE]
                h == get_port_history(port_history, k[1], k[2], k[3])
            IN  /\ h # None
                /\ h[1].seen_count = 1
                /\ h[1].first_seen = row.timestamp
                /\ h[1].last_seen = row.timestamp
                /\ h[1].current_state = row.state

C3_Witness ==
    \E k \in AllKeys :
        /\ Cardinality(OpenRows(port_events, k)) = 1
        /\ HasRecord(port_history, k)
        /\ \E k2 \in AllKeys : SeenCount(port_history, k2) >= 2

\* C6: a store_events call that raises leaves every table as it was before
\* the call, and main ends with the storage error.
C6_FailedIngestRollsBack ==
    [][IngestFailed =>
          /\ port_events' = port_events
          /\ hosts' = hosts
          /\ port_history' = port_history
          /\ scans' = scans
          /\ outcome' = "storage_error"
      ]_vars

\* A batch failed after a port event, a host event and a ledger update had
\* been written, and none of them is in the store.
C6_Witness ==
    \E f \in failed_ingest :
        /\ f.discarded
        /\ \A i \in 1..Len(port_events) : port_events[i].scan_id # f.scan_id
        /\ \A i \in 1..Len(hosts) : hosts[i].scan_id # f.scan_id
        /\ port_history = <<>>

\* C7: a scan whose store_events call raised is never returned by
\* get_last_scan.
C7_FailedScanNeverBaseline ==
    \A t \in Targets :
        LET last_scan == get_last_scan(scans, t)
        IN  last_scan # None =>
                \A f \in failed_ingest : f.scan_id # last_scan[1].id

\* C8: for every key the ledger's seen_count is the number of stored
\* port_events rows with that key and state 'open', there is a record exactly
\* when that number is not 0, and no key has two records.
C8_LedgerMatchesEventStore ==
    \A k \in AllKeys :
        /\ SeenCount(port_history, k) = Cardinality(OpenRows(port_events, k))
        /\ HasRecord(port_history, k) <=> OpenRows(port_events, k) # {}
        /\ Cardinality(HistoryMatches(port_history, k[1], k[2], k[3])) <= 1

C8_Witness ==
    \E k \in AllKeys :
        /\ SeenCount(port_history, k) >= 2
        /\ \E i, j \in OpenRows(port_events, k) :
              port_events[i].scan_id # port_events[j].scan_id
        /\ \E i \in 1..Len(port_events) : port_events[i].state # "open"

\* The most recent completed scan of a target other than scan sid.
PreviousScan(sc, tgt, sid) ==
    LET rows == {i \in 1..Len(sc) :
                    /\ sc[i].target_address = tgt
                    /\ sc[i].status = "completed"
                    /\ sc[i].id # sid}
    IN  IF rows = {} THEN None
        ELSE Some(sc[CHOOSE i \in rows :
                        \A j \in rows : IsoLeq(sc[j].timestamp, sc[i].timestamp)])

\* C9: once the pipeline has ingested scan C of a target that has an earlier
\* completed (and fully ingested) scan P, the change set it reports is
\* detect_changes(P, C).
C9_ReportsChangesSincePrevious ==
    pc = "diffed" =>
        LET previous == PreviousScan(scans, target, scan_id)
        IN  (previous # None /\ \A f \in failed_ingest : f.scan_id # previous[1].id) =>
                changes = detect_changes(port_events, previous[1].id, scan_id)

\* The history main reads from the ledger for a port event.
LedgerHistory(event) ==
    get_port_history(port_history, event.host, event.port, event.protocol)

\* The history modifier without the 'reopened' addition.
PrimaryHistoryModifier(history) ==
    IF history = None THEN 2
    ELSE IF history[1].seen_count <= 2 THEN 3
    ELSE IF history[1].seen_count >= 10 THEN -1
    ELSE 0

\* C15: every ledger record has current_state "open"; so for the histories
\* main reads from the ledger the history modifier never holds the +2 of a
\* reopened port, and no assessment of a run has the "Port reopened" factor.
C15_LedgerStateAlwaysOpen ==
    /\ \A i \in 1..Len(port_history) : port_history[i].current_state = "open"
    /\ \A i \in 1..Len(events) :
          IsPortStateEvent(events[i]) =>
              _apply_history_modifiers(0, LedgerHistory(events[i]))
                  = PrimaryHistoryModifier(LedgerHistory(events[i]))
    /\ \A i \in 1..Len(risks) :
          \A j \in 1..Len(risks[i].risk_factors) :
              risks[i].risk_factors[j] # "Port reopened"

\* A run stored a closed event and then an open event for a port that was
\* open in an earlier scan, and scored it with the ledger's record.
C15_Witness ==
    /\ pc = "scored"
    /\ \E k \in AllKeys :
          /\ \E i \in 1..Len(port_events) :
                /\ port_events[i].scan_id = scan_id
                /\ port_events[i].state = "closed"
                /\ <<port_events[i].host, port_events[i].port, port_events[i].protocol>> = k
                /\ \E j \in (i + 1)..Len(port_events) :
                      /\ port_events[j].state = "open"
                      /\ <<port_events[j].host, port_events[j].port,
                           port_events[j].protocol>> = k
          /\ \E i \in 1..Len(port_events) :
                /\ port_events[i].scan_id # scan_id
                /\ port_events[i].state = "open"
                /\ <<port_events[i].host, port_events[i].port, port_events[i].protocol>> = k
          /\ SeenCount(port_history, k) = 2
          /\ \E i \in 1..Len(risks) :
                /\ risks[i].port = k[2]
                /\ \E j \in 1..Len(risks[i].risk_factors) :
                      risks[i].risk_factors[j] = "Recently appeared"

(***************************************************************************)
(* Properties of the change detector.                                      *)
(***************************************************************************)
DiffPairs == {<<"h1", 80>>, <<"h1", 443>>}

\* (host, port) has a stored port event with state 'open' under scan sid.
OpenIn(pe, sid, pair) ==
    \E i \in 1..Len(pe) :
        /\ pe[i].scan_id = sid
        /\ pe[i].state = "open"
        /\ pe[i].host = pair[1]
        /\ pe[i].port = pair[2]

Returned(op) == call.op = op /\ call.at = "returned"

\* C10: detect_changes(baseline, current) returns as opened_ports the pairs
\* open under current and not under baseline, and as closed_ports the pairs
\* open under baseline and not under current.
C10_DetectChangesIsSetDifference ==
    Returned("detect_changes") =>
        /\ call.result.opened_ports \subseteq DiffPairs
        /\ call.result.closed_ports \subseteq DiffPairs
        /\ \A pair \in DiffPairs :
              /\ pair \in call.result.opened_ports <=>
                    /\ OpenIn(port_events, call.new_scan_id, pair)
                    /\ ~OpenIn(port_events, call.old_scan_id, pair)
              /\ pair \in call.result.closed_ports <=>
                    /\ OpenIn(port_events, call.old_scan_id, pair)
                    /\ ~OpenIn(port_events, call.new_scan_id, pair)

\* Baseline {(h1,80)}, current {(h1,80),(h1,443)}: opened {(h1,443)}, closed {}.
C10_Witness ==
    /\ Returned("detect_changes")
    /\ call.old_scan_id = 1
    /\ call.new_scan_id = 2
    /\ OpenIn(port_events, 1, <<"h1", 80>>)
    /\ ~OpenIn(port_events, 1, <<"h1", 443>>)
    /\ OpenIn(port_events, 2, <<"h1", 80>>)
    /\ OpenIn(port_events, 2, <<"h1", 443>>)
    /\ call.result = [opened_ports |-> {<<"h1", 443>>}, closed_ports |-> {}]

\* The (host, port) pairs with a stored open event under scan sid.
OpenPairs(pe, sid) == {pair \in DiffPairs : OpenIn(pe, sid, pair)}

\* C11: detect_changes(S, S) returns an empty opened_ports set and an empty
\* closed_ports set, whatever the store holds.
C11_SameScanNoChanges ==
    (Returned("detect_changes") /\ call.old_scan_id = call.new_scan_id) =>
        /\ call.result.opened_ports = {}
        /\ call.result.closed_ports = {}

\* detect_changes(1, 1) returned on a store where scan 1 has open ports.
C11_Witness ==
    /\ Returned("detect_changes")
    /\ call.old_scan_id = 1
    /\ call.new_scan_id = 1
    /\ OpenPairs(port_events, 1) = DiffPairs
    /\ call.result = [opened_ports |-> {}, closed_ports |-> {}]

\* C12: the opened_ports and closed_ports sets of one detect_changes result
\* have no element in common.
C12_OpenedClosedDisjoint ==
    Returned("detect_changes") =>
        call.result.opened_ports \cap call.result.closed_ports = {}

\* A result with a port opened and another port closed.
C12_Witness ==
    /\ Returned("detect_changes")
    /\ call.result.opened_ports # {}
    /\ call.result.closed_ports # {}

\* C13: a scan id without stored events counts as a scan with no open port:
\* unknown baseline, every open pair of the current scan is opened and
\* nothing is closed; unknown current scan, every open pair of the baseline
\* is closed and nothing is opened; both unknown, both sets are empty.  The
\* call returns a result in each case.
C13_UnknownScanIsEmpty ==
    Returned("detect_changes") =>
        /\ call.old_scan_id = UnknownScanId =>
              /\ call.result.opened_ports = OpenPairs(port_events, call.new_scan_id)
              /\ call.result.closed_ports = {}
        /\ call.new_scan_id = UnknownScanId =>
              /\ call.result.closed_ports = OpenPairs(port_events, call.old_scan_id)
              /\ call.result.opened_ports = {}
        /\ (call.old_scan_id = UnknownScanId /\ call.new_scan_id = UnknownScanId) =>
              call.result = [opened_ports |-> {}, closed_ports |-> {}]

\* An unknown baseline against a stored scan with two open ports.
C13_Witness ==
    /\ Returned("detect_changes")
    /\ call.old_scan_id = UnknownScanId
    /\ call.new_scan_id = 2
    /\ \A i \in 1..Len(port_events) : port_events[i].scan_id # UnknownScanId
    /\ call.result = [opened_ports |-> DiffPairs, closed_ports |-> {}]

\* (host, port) has a stored open event on the protocol under scan sid.
OpenOn(pe, sid, pair, protocol) ==
    \E i \in 1..Len(pe) :
        /\ pe[i].scan_id = sid
        /\ pe[i].state = "open"
        /\ pe[i].host = pair[1]
        /\ pe[i].port = pair[2]
        /\ pe[i].protocol = protocol

\* The elements of a change set that are about (host, port).
About(ports, pair) == {x \in ports : x[1] = pair[1] /\ x[2] = pair[2]}

\* C14: when (h, p) is open on one protocol in the baseline and on the other
\* protocol in the current scan, detect_changes reports nothing about (h, p),
\* and the ledger holds one record for (h, p, tcp) and another for
\* (h, p, udp), each counting the open sightings of its own protocol.
C14_ProtocolIgnoredByDiff ==
    Returned("detect_changes") =>
        \A pair \in DiffPairs :
            \A protos \in {<<"tcp", "udp">>, <<"udp", "tcp">>} :
                ( /\ OpenOn(port_events, call.old_scan_id, pair, protos[1])
                  /\ OpenOn(port_events, call.new_scan_id, pair, protos[2]) ) =>
                    /\ About(call.result.opened_ports, pair) = {}
                    /\ About(call.result.closed_ports, pair) = {}
                    /\ \A protocol \in {"tcp", "udp"} :
                          LET k == <<pair[1], pair[2], protocol>>
                          IN  /\ Cardinality(HistoryMatches(port_history, k[1], k[2], k[3])) = 1
                              /\ SeenCount(port_history, k) =
                                    Cardinality(OpenRows(port_events, k))

\* (h1, 80) is open only on tcp in scan 1 and only on udp in scan 2; the
\* result is empty and the ledger has two records for port 80.
C14_Witness ==
    /\ Returned("detect_changes")
    /\ call.old_scan_id = 1
    /\ call.new_scan_id = 2
    /\ OpenOn(port_events, 1, <<"h1", 80>>, "tcp")
    /\ ~OpenOn(port_events, 1, <<"h1", 80>>, "udp")
    /\ OpenOn(port_events, 2, <<"h1", 80>>, "udp")
    /\ ~OpenOn(port_events, 2, <<"h1", 80>>, "tcp")
    /\ call.result = [opened_ports |-> {}, closed_ports |-> {}]
    /\ SeenCount(port_history, <<"h1", 80, "tcp">>) = 1
    /\ SeenCount(port_history, <<"h1", 80, "udp">>) = 1
    /\ Len(port_history) = 2

(***************************************************************************)
(* Properties of the scorer.                                               *)
(***************************************************************************)

\* C4: score_event returns an integer from 0 to 10 for every event and every
\* history; telnet open on port 23 with no history scores exactly 10.
C4_ScoreWithinRange ==
    Returned("score_event") =>
        /\ call.result \in 0..10
        /\ (/\ call.event.state = "open"
            /\ call.event.service = Some("telnet")
            /\ call.event.port = 23
            /\ call.history = None) => call.result = 10

\* Telnet on 23, version known, no history: 10 + 1 + 2 = 13, returned as 10.
C4_Witness ==
    /\ Returned("score_event")
    /\ call.event.state = "open"
    /\ call.event.service = Some("telnet")
    /\ call.event.port = 23
    /\ call.event.product = None
    /\ call.event.version = Some(Str_7_4)
    /\ call.history = None
    /\ call.result = 10

\* C5: score_event returns 0 for every event whose state is not "open", and
\* score_events returns assessments of open events only: at most one per open
\* event of its input, each for the host and port of an open event.
C5_NonOpenScoresZero ==
    /\ (Returned("score_event") /\ call.event.state # "open") => call.result = 0
    /\ Returned("score_events") =>
          /\ Len(call.result) <=
                Cardinality({i \in 1..Len(call.events) : call.events[i].state = "open"})
          /\ \A n \in 1..Len(call.result) :
                \E i \in 1..Len(call.events) :
                    /\ call.events[i].state = "open"
                    /\ call.events[i].host = call.result[n].host
                    /\ call.events[i].port = call.result[n].port

\* A batch of one open and one closed event gives the one assessment of the
\* open event.
C5_Witness ==
    /\ Returned("score_events")
    /\ Len(call.events) = 2
    /\ call.events[1].state = "closed"
    /\ call.events[2].state = "open"
    /\ Len(call.result) = 1
    /\ call.result[1].port = call.events[2].port

\* The event of worked scenario 2: ssh open on port 22, nothing else known.
IsSshOn22(event) ==
    /\ event.state = "open"
    /\ event.service = Some("ssh")
    /\ event.port = 22
    /\ event.product = None
    /\ event.version = None

Established15(history) ==
    /\ history # None
    /\ history[1].seen_count = 15
    /\ history[1].current_state = "open"

\* C16 as stated: ssh open on port 22 with no other field, seen 15 times and
\* open in the ledger, scores exactly 4.
C16_SshEstablishedScoresFour ==
    (Returned("score_event") /\ IsSshOn22(call.event) /\ Established15(call.history))
        => call.result = 4

\* C16 as amended: ssh open on port 22 with no other field, seen 15 times
\* and open in the ledger, scores exactly 5: base 4, + 1 privileged port,
\* - 1 established, + 1 for the version that is not given.
C16_SshEstablishedScoresFive ==
    (Returned("score_event") /\ IsSshOn22(call.event) /\ Established15(call.history))
        => call.result = 5

C16_Witness ==
    /\ Returned("score_event")
    /\ IsSshOn22(call.event)
    /\ Established15(call.history)
    /\ call.result = 5

\* The event of worked scenario 3: no service, open on port 31337.
IsUnknownOn31337(event) ==
    /\ event.state = "open"
    /\ event.service = None
    /\ event.port = 31337
    /\ event.product = None
    /\ event.version = None

Includes(factors, factor) == \E j \in 1..Len(factors) : factors[j] = factor

\* The assessments score_events returned for the events of scenario 3 that
\* have no history.
Scenario3Assessments(risk) ==
    \A i \in 1..Len(call.events) :
        ( /\ IsUnknownOn31337(call.events[i])
          /\ Key(call.events[i]) \notin DOMAIN call.port_histories ) =>
            \E n \in 1..Len(call.result) :
                /\ call.result[n].port = 31337
                /\ call.result[n].risk = risk
                /\ Includes(call.result[n].risk_factors, "Known backdoor port")
                /\ Includes(call.result[n].risk_factors, "First time detected")

\* C17 as stated: an open event on port 31337 with no service and no other
\* field, without history, scores exactly 7 and its risk factors include
\* "Known backdoor port" and "First time detected".
C17_BackdoorFirstSeenScoresSeven ==
    /\ (Returned("score_event") /\ IsUnknownOn31337(call.event) /\ call.history = None)
          => call.result = 7
    /\ Returned("score_events") => Scenario3Assessments(7)

\* C17 as amended: the same event scores exactly 8 (base 2, + 3 backdoor
\* port, + 2 no history, + 1 for the version that is not given), with the
\* same two risk factors.
C17_BackdoorFirstSeenScoresEight ==
    /\ (Returned("score_event") /\ IsUnknownOn31337(call.event) /\ call.history = None)
          => call.result = 8
    /\ Returned("score_events") => Scenario3Assessments(8)

C17_Witness ==
    /\ Returned("score_events")
    /\ Len(call.events) = 1
    /\ IsUnknownOn31337(call.events[1])
    /\ call.port_histories = <<>>
    /\ Len(call.result) = 1
    /\ call.result[1].risk = 8
    /\ call.result[1].risk_factors =
          <<"Known backdoor port", "First time detected", "Version unknown">>

\* C18: for an open event the score after the port modifiers is the base plus
\* the port modifiers.  The base is the SERVICE_RISK value of the service
\* matched exactly and 2 without a match or a service; the port modifiers
\* add up: 1 for a port in 1..1023, 3 for a port of the backdoor set, 2 for a
\* port in 49152..65535.
C18_BasePlusPortModifiers ==
    (Returned("score_event") /\ call.event.state = "open") =>
        LET service == call.event.service
            port == call.event.port
            base == call.score[1]
        IN  /\ (service # None /\ service[1] \in DOMAIN SERVICE_RISK)
                  => base = SERVICE_RISK[service[1]]
            /\ (service = None \/ service[1] \notin DOMAIN SERVICE_RISK) => base = 2
            /\ service = Some("telnet") => base = 10
            /\ service = Some("TELNET") => base = 2
            /\ call.score[2] = base
                  + (IF port >= 1 /\ port <= 1023 THEN 1 ELSE 0)
                  + (IF port \in {31337, 12345, 54321, 1337, 6666, 6667} THEN 3 ELSE 0)
                  + (IF port >= 49152 /\ port <= 65535 THEN 2 ELSE 0)
            /\ port = 54321 => call.score[2] = base + 5
            /\ port \in {0, 1024, 5353, 49151} => call.score[2] = base

\* An upper-case service name on a port that is a backdoor port and an
\* ephemeral port: base 2, 7 after the port modifiers.
C18_Witness ==
    /\ Returned("score_event")
    /\ call.event.state = "open"
    /\ call.event.service = Some("TELNET")
    /\ call.event.port = 54321
    /\ call.score[1] = 2
    /\ call.score[2] = 7

\* What a history whose current_state is "closed" adds.
ReopenedModifier(history) ==
    IF history # None /\ history[1].current_state = "closed" THEN 2 ELSE 0

\* C19: the history modifier of an open event is one of four exclusive
\* cases (no record +2, seen_count <= 2 +3, seen_count >= 10 -1, seen_count
\* in 3..9 0) plus, only for an existing record whose current_state is
\* "closed", a further 2.
C19_HistoryModifierCases ==
    (Returned("score_event") /\ call.event.state = "open") =>
        LET history == call.history
            added == call.score[3] - call.score[2]
        IN  /\ added = PrimaryHistoryModifier(history) + ReopenedModifier(history)
            /\ history = None => added = 2
            /\ history # None =>
                  LET seen_count == history[1].seen_count
                      closed == history[1].current_state = "closed"
                  IN  /\ (seen_count <= 2 /\ ~closed) => added = 3
                      /\ (seen_count <= 2 /\ closed) => added = 5
                      /\ (seen_count \in 3..9 /\ ~closed) => added = 0
                      /\ (seen_count \in 3..9 /\ closed) => added = 2
                      /\ (seen_count >= 10 /\ ~closed) => added = -1
                      /\ (seen_count >= 10 /\ closed) => added = 1

\* A port seen twice whose record is closed: 3 and 2 are both added.
C19_Witness ==
    /\ Returned("score_event")
    /\ call.event.state = "open"
    /\ call.history # None
    /\ call.history[1].seen_count = 2
    /\ call.history[1].current_state = "closed"
    /\ call.score[3] = call.score[2] + 5

\* C20: the version modifier of an open event is 1 for a version that is
\* absent or empty; 2 for an OpenSSH product whose version starts with a
\* number below 7; 2 for an Apache product whose version contains "2.2" or
\* "2.0"; and nothing for a version given without a product or for an OpenSSH
\* version that does not start with a number.  score_event returns a score
\* in each of these cases.
C20_VersionModifierDegrades ==
    (Returned("score_event") /\ call.event.state = "open") =>
        LET product == call.event.product
            version == call.event.version
            added == call.score[4] - call.score[3]
        IN  /\ call.result \in 0..10
            /\ call.result = IF call.score[4] <= 10 THEN call.score[4] ELSE 10
            /\ version \in {None, Some(<<>>)} => added = 1
            /\ (product = None /\ version \notin {None, Some(<<>>)}) => added = 0
            /\ product = Some(Str_OpenSSH) =>
                  /\ version \in {Some(Str_6_6), Some(Str_2_2_15), Some(Str_minus_inf)}
                        => added = 2
                  /\ version \in {Some(Str_7_4), Some(Str_10_2)} => added = 0
                  /\ version \in {Some(Str_x_1), Some(Str_6p1)} => added = 0
            /\ product = Some(Str_Apache_httpd) =>
                  /\ version = Some(Str_2_2_15) => added = 2
                  /\ version \in {Some(Str_6_6), Some(Str_7_4), Some(Str_10_2),
                                   Some(Str_x_1), Some(Str_6p1), Some(Str_minus_inf)}
                        => added = 0

\* An OpenSSH version that starts with a letter: a score is returned and the
\* version adds nothing to it.
C20_Witness ==
    /\ Returned("score_event")
    /\ call.event.state = "open"
    /\ call.event.product = Some(Str_OpenSSH)
    /\ call.event.version = Some(Str_x_1)
    /\ call.score[4] = call.score[3]
    /\ call.result \in 0..10

\* The event an assessment of the returned list was made for, and the
\* history it was scored with.
EventOf(a) ==
    CHOOSE e \in {call.events[i] : i \in 1..Len(call.events)} :
        e.state = "open" /\ e.host = a.host /\ e.port = a.port

HistoryOf(a) == HistoryFor(call.port_histories, EventOf(a))

\* The factors _get_risk_factors has for the service, for three modifiers of
\* the port and the history, for the version, and for nothing at all.
NamedFactors ==
    {"Unencrypted legacy protocol", "Common attack vector", "Known backdoor port",
     "Unusual port for services", "First time detected", "Recently appeared",
     "Port reopened", "Version unknown", "Standard risk for this service"}

\* Some factor of the list is about something else than the named ones.
HasFurtherFactor(factors) == \E j \in 1..Len(factors) : factors[j] \notin NamedFactors

\* C21: in every assessment each modifier applied to the score has a factor
\* (the privileged port, the established port and the old OpenSSH or Apache
\* version too, for which a factor of their own is needed), and each port,
\* history or version factor present belongs to a modifier that was applied.
C21_FactorsMatchModifiers ==
    Returned("score_events") =>
        \A n \in 1..Len(call.result) :
            LET a == call.result[n]
                e == EventOf(a)
                h == HistoryOf(a)
                f == a.risk_factors
            IN  /\ (e.port >= 1 /\ e.port <= 1023) => HasFurtherFactor(f)
                /\ (h # None /\ h[1].seen_count >= 10) => HasFurtherFactor(f)
                /\ (e.product = Some(Str_OpenSSH) /\ e.version = Some(Str_6_6))
                      => HasFurtherFactor(f)
                /\ (e.product = Some(Str_Apache_httpd) /\ e.version = Some(Str_2_2_15))
                      => HasFurtherFactor(f)
                /\ Includes(f, "Known backdoor port")
                      <=> e.port \in {31337, 12345, 54321, 1337, 6666, 6667}
                /\ Includes(f, "Unusual port for services")
                      <=> (e.port >= 49152 /\ e.port <= 65535)
                /\ Includes(f, "First time detected") <=> h = None
                /\ Includes(f, "Recently appeared")
                      <=> (h # None /\ h[1].seen_count <= 2)
                /\ Includes(f, "Port reopened")
                      <=> (h # None /\ h[1].current_state = "closed")
                /\ Includes(f, "Version unknown") <=> e.version \in {None, Some(<<>>)}

\* The services of the critical tier of SERVICE_RISK, "Unencrypted legacy
\* protocols".
LegacyServices == {"telnet", "ftp", "tftp", "rlogin", "rsh", "pptp"}

\* C22: an assessment has the factor "Unencrypted legacy protocol" exactly
\* when the service of its event is telnet, ftp, tftp, rlogin, rsh or pptp.
C22_LegacyFactorIffLegacyService ==
    Returned("score_events") =>
        \A n \in 1..Len(call.result) :
            Includes(call.result[n].risk_factors, "Unencrypted legacy protocol")
                <=> ( /\ EventOf(call.result[n]).service # None
                      /\ EventOf(call.result[n]).service[1] \in LegacyServices )

\* C23: the assessments score_events returns are in non-increasing order of
\* risk, and those of equal risk are in the order of their events in the
\* input list.
C23_SortedByRiskStable ==
    Returned("score_events") =>
        LET result == call.result
            Pair(x) == <<x.host, x.port>>
            ResultPairs == [n \in 1..Len(result) |-> Pair(result[n])]
            EventPairs == [i \in 1..Len(call.events) |-> Pair(call.events[i])]
            Assessed(pair) == \E n \in 1..Len(result) : Pair(result[n]) = pair
            RiskOf(pair) == (CHOOSE a \in {result[n] : n \in 1..Len(result)} :
                                Pair(a) = pair).risk
        IN  /\ \A n \in 1..Len(result) : \A m \in (n + 1)..Len(result) :
                  result[n].risk >= result[m].risk
            /\ \A r \in 0..10 :
                  LET ResultHasRisk(pair) == RiskOf(pair) = r
                      EventHasRisk(pair) == Assessed(pair) /\ RiskOf(pair) = r
                  IN  SelectSeq(ResultPairs, ResultHasRisk)
                          = SelectSeq(EventPairs, EventHasRisk)

\* tftp before telnet in the input, both scoring 10: tftp stays first.
C23_Witness ==
    /\ Returned("score_events")
    /\ Len(call.events) = 2
    /\ call.events[1].service = Some("tftp")
    /\ call.events[2].service = Some("telnet")
    /\ Len(call.result) = 2
    /\ call.result[1].risk = call.result[2].risk
    /\ call.result[1].service = "tftp"
    /\ call.result[2].service = "telnet"

\* The open events of a list.
OpenEvents(evs) == {i \in 1..Len(evs) : evs[i].state = "open"}

\* C28 as stated: score_event gives every open event at least 1, and
\* score_events returns exactly one assessment per open event of its input.
C28_OpenScoresAtLeastOne ==
    /\ (Returned("score_event") /\ call.event.state = "open") => call.result >= 1
    /\ Returned("score_events") =>
          Len(call.result) = Cardinality(OpenEvents(call.events))

\* The one way to the score 0 for an open event: the base 1 of "domain", no
\* port modifier, an established record that is not closed, and a version
\* that is given and adds nothing.
ScoresZero(event, history) ==
    /\ event.service = Some("domain")
    /\ ~(event.port >= 1 /\ event.port <= 1023)
    /\ event.port \notin {31337, 12345, 54321, 1337, 6666, 6667}
    /\ ~(event.port >= 49152 /\ event.port <= 65535)
    /\ history # None
    /\ history[1].seen_count >= 10
    /\ history[1].current_state # "closed"
    /\ event.version \notin {None, Some(<<>>)}
    /\ ~( /\ event.product = Some(Str_OpenSSH)
          /\ event.version \in {Some(Str_6_6), Some(Str_2_2_15), Some(Str_minus_inf)} )
    /\ ~(event.product = Some(Str_Apache_httpd) /\ event.version = Some(Str_2_2_15))

\* C28 as amended: score_event gives every open event at least 0, and 0 only
\* to a "domain" event without port modifier whose record is established
\* and not closed and whose version adds nothing; score_events returns
\* exactly one assessment per open event that scores at least 1, so the
\* risk > 0 filter removes the events that are not open and those open
\* events that score 0.
C28_OpenScoresZeroOnlyForEstablishedDomain ==
    /\ (Returned("score_event") /\ call.event.state = "open") =>
          /\ call.result >= 0
          /\ call.result = 0 <=> ScoresZero(call.event, call.history)
    /\ Returned("score_events") =>
          Len(call.result) =
              Cardinality({i \in OpenEvents(call.events) :
                  ~ScoresZero(call.events[i],
                              HistoryFor(call.port_histories, call.events[i]))})

\* Two open events, one of them an established domain port: one assessment.
C28_Witness ==
    /\ Returned("score_events")
    /\ Len(call.events) = 2
    /\ call.events[1].state = "open"
    /\ call.events[2].state = "open"
    /\ call.events[1].service = Some("domain")
    /\ ScoresZero(call.events[1], HistoryFor(call.port_histories, call.events[1]))
    /\ call.events[2].service = Some("tftp")
    /\ Len(call.result) = 1
    /\ call.result[1].service = "tftp"

\* The record of key k in ledger ph, None without one.
RecordOf(ph, k) == get_port_history(ph, k[1], k[2], k[3])

\* The store_events call returned and its transaction was committed.
Committed == Returned("store_events") /\ ~call.raised

\* C25: within one store_events call the events are applied in the order
\* supplied: the port_events rows of the call follow the rows found, in
\* batch order, and for a key that is open several times in the batch the
\* record ends with last_seen and current_state of its last open event and
\* with seen_count grown by the number of its open occurrences.
C25_AppliedInBatchOrder ==
    Committed =>
        LET pes == PortEventsOf(call.events)
            found == Len(call.before.port_events)
        IN  /\ Len(port_events) = found + Len(pes)
            /\ \A i \in 1..found : port_events[i] = call.before.port_events[i]
            /\ \A i \in 1..Len(pes) :
                  /\ port_events[found + i].scan_id = call.scan_id
                  /\ port_events[found + i].port = pes[i].port
                  /\ port_events[found + i].state = pes[i].state
                  /\ port_events[found + i].timestamp = Isoformat(pes[i].timestamp)
            /\ \A k \in AllKeys :
                  LET sightings == OpenSightings(call.events, k)
                      last == CHOOSE i \in sightings : \A j \in sightings : j <= i
                  IN  sightings # {} =>
                        /\ RecordOf(port_history, k) # None
                        /\ RecordOf(port_history, k)[1].last_seen =
                              Isoformat(call.events[last].timestamp)
                        /\ RecordOf(port_history, k)[1].current_state =
                              call.events[last].state
                        /\ SeenCount(port_history, k) =
                              SeenCount(call.before.port_history, k)
                                + Cardinality(sightings)

\* One key open twice in the batch, the later timestamp first: the record
\* ends with the timestamp of the event that comes last in the batch.
C25_Witness ==
    /\ Committed
    /\ Len(call.events) = 3
    /\ call.events[1] = PortStateEvent("h1", 6, 80, "tcp", "open", None, None, None)
    /\ call.events[2] = PortStateEvent("h1", 5, 443, "tcp", "open", None, None, None)
    /\ call.events[3] = PortStateEvent("h1", 5, 80, "tcp", "open", None, None, None)
    /\ RecordOf(port_history, <<"h1", 80, "tcp">>)[1].last_seen = Isoformat(5)
    /\ SeenCount(port_history, <<"h1", 80, "tcp">>)
          = SeenCount(call.before.port_history, <<"h1", 80, "tcp">>) + 2
    /\ port_events[Len(port_events)].timestamp = Isoformat(5)

\* The host events and the port events that are not open, of a batch.
HostEventsIn(evs) == {i \in 1..Len(evs) : IsHostDiscoveredEvent(evs[i])}
PortEventsIn(evs) == {i \in 1..Len(evs) : IsPortStateEvent(evs[i])}

\* C26: a port event that is not open and a host event leave port_history
\* alone: a key without open event in the batch keeps its record as it was
\* or stays without one, and a batch without open event leaves the whole
\* table as it was; every port event adds one port_events row and no hosts
\* row, every host event one hosts row and no port_events row.
C26_NonOpenLeavesLedger ==
    Committed =>
        /\ \A k \in AllKeys :
              OpenSightings(call.events, k) = {} =>
                  RecordOf(port_history, k) = RecordOf(call.before.port_history, k)
        /\ (\A k \in AllKeys : OpenSightings(call.events, k) = {}) =>
              port_history = call.before.port_history
        /\ Len(port_history) =
              Len(call.before.port_history)
                + Cardinality({k \in AllKeys :
                      /\ OpenSightings(call.events, k) # {}
                      /\ RecordOf(call.before.port_history, k) = None})
        /\ Len(port_events) =
              Len(call.before.port_events) + Cardinality(PortEventsIn(call.events))
        /\ Len(hosts) = Len(call.before.hosts) + Cardinality(HostEventsIn(call.events))

\* A closed and a filtered event for a port the ledger knows as open, and a
\* host event: three rows stored, the record as it was.
C26_Witness ==
    /\ Committed
    /\ Len(call.events) = 3
    /\ IsHostDiscoveredEvent(call.events[1])
    /\ IsPortStateEvent(call.events[2])
    /\ IsPortStateEvent(call.events[3])
    /\ call.events[2].state = "closed"
    /\ call.events[3].state = "filtered"
    /\ RecordOf(call.before.port_history, <<"h1", 80, "tcp">>) # None
    /\ RecordOf(port_history, <<"h1", 80, "tcp">>)[1].current_state = "open"
    /\ port_history = call.before.port_history
    /\ Len(port_events) = Len(call.before.port_events) + 2
    /\ Len(hosts) = Len(call.before.hosts) + 1

\* The open events of the run for key k, and the open rows earlier scans
\* stored for it.
EarlierOpenRows(k) == {i \in OpenRows(port_events, k) : port_events[i].scan_id # scan_id}

\* The assessments of the run for the port of key k.
AssessmentsFor(k) == {i \in 1..Len(risks) : risks[i].host = k[1] /\ risks[i].port = k[2]}

C29_FirstSeenNeverModified ==
    /\ [][\A k \in AllKeys :
             HasRecord(port_history, k) =>
                 /\ HasRecord(port_history', k)
                 /\ RecordOf(port_history', k)[1].first_seen
                       = RecordOf(port_history, k)[1].first_seen
         ]_vars
    /\ [](\A k \in AllKeys :
             HasRecord(port_history, k) =>
                 LET rows == OpenRows(port_events, k)
                     first == CHOOSE i \in rows : \A j \in rows : i <= j
                     last == CHOOSE i \in rows : \A j \in rows : j <= i
                     record == RecordOf(port_history, k)[1]
                 IN  /\ rows # {}
                     /\ record.first_seen = port_events[first].timestamp
                     /\ record.last_seen = port_events[last].timestamp
                     /\ IsoLeq(record.first_seen, record.last_seen))

\* A port seen open by two runs: first_seen of the first, last_seen of the
\* second.
C29_Witness ==
    \E k \in AllKeys :
        /\ HasRecord(port_history, k)
        /\ SeenCount(port_history, k) >= 2
        /\ RecordOf(port_history, k)[1].first_seen # RecordOf(port_history, k)[1].last_seen
        /\ RecordOf(port_history, k)[1].first_seen
              = port_events[CHOOSE i \in OpenRows(port_events, k) :
                               \A j \in OpenRows(port_events, k) : i <= j].timestamp

\* The latest scan of a target, whatever its status.
LastScanAnyStatus(sc, tgt) ==
    LET rows == {i \in 1..Len(sc) : sc[i].target_address = tgt}
    IN  IF rows = {} THEN None
        ELSE Some(sc[CHOOSE i \in rows :
                        \A j \in rows : IsoLeq(sc[j].timestamp, sc[i].timestamp)])

\* What a step may do to the scans table and to the events stored.
ScansWrittenOnlyByCreateScan ==
    /\ (scans' # scans) =>
          ( /\ pc = "parsed"
            /\ pc' = "created"
            /\ Len(scans') = Len(scans) + 1
            /\ scans'[Len(scans')].status = "completed" )
    /\ \A i \in 1..Len(scans) : (i <= Len(scans') /\ scans'[i] = scans[i])
    /\ (pc \in {"idle", "scanned"}) => (UNCHANGED dbvars)
    /\ (port_events' # port_events \/ hosts' # hosts) =>
          ( /\ pc = "created"
            /\ scan_id \in 1..Len(scans) )

\* C30: a scan record is written only by the create_scan step, which main
\* reaches after the scan ran and its output was parsed, and with the
\* status 'completed'; a failed scan, a dry run and a parse error leave all
\* tables as they were, events are stored only for a scan record written,
\* and no step changes a record there is.  So every scan row has the status
\* 'completed' and get_last_scan finds what it would find without its
\* status filter.
C30_ScansAlwaysCompleted ==
    /\ [][ScansWrittenOnlyByCreateScan]_vars
    /\ [](/\ \A i \in 1..Len(scans) : scans[i].status = "completed"
          /\ \A t \in Targets : get_last_scan(scans, t) = LastScanAnyStatus(scans, t))

\* After a completed run a scan failed, ran dry or could not be parsed:
\* still one scan record, completed.
C30_Witness ==
    /\ Len(scans) = 1
    /\ runs = 2
    /\ pc = "idle"
    /\ outcome \in {"failed", "dry_run", "parse_error"}
    /\ get_last_scan(scans, "t1") # None
    /\ get_last_scan(scans, "t1")[1].status = "completed"

\* The open sightings of key k in the batches the processes have committed.
CommittedSightings(k) ==
    LET Of(p) == IF call.procs[p].at = "committed"
                 THEN Cardinality(OpenSightings(call.procs[p].events, k)) ELSE 0
    IN  Of(1) + Of(2)

BothContainOpen(k) == \A p \in Procs : OpenSightings(call.procs[p].events, k) # {}

\* C24: two store_events calls of separate processes with open events for
\* the same key, the write lock held from the first insert to the commit:
\* in every state of every interleaving the ledger holds at most one record
\* for the key, and its seen_count is what the store held before plus the
\* open sightings of the calls that have committed; with both committed on
\* an empty store that is exactly one record whose seen_count is the total
\* of the open sightings of both calls.
C24_SerializedIngestsCountEverySighting ==
    (call.op = "store_events" /\ call.at = "concurrent") =>
        \A k \in AllKeys :
            BothContainOpen(k) =>
                /\ Cardinality(HistoryMatches(port_history, k[1], k[2], k[3])) <= 1
                /\ SeenCount(port_history, k) =
                      SeenCount(call.before.port_history, k) + CommittedSightings(k)
                /\ CommittedSightings(k) > 0 =>
                      Cardinality(HistoryMatches(port_history, k[1], k[2], k[3])) = 1

\* Both calls committed on an empty store, three open sightings of port 80
\* between them: one record, seen_count 3.
C24_Witness ==
    /\ call.op = "store_events"
    /\ call.at = "concurrent"
    /\ call.before = EmptyTables
    /\ \A p \in Procs : call.procs[p].at = "committed"
    /\ BothContainOpen(<<"h1", 80, "tcp">>)
    /\ CommittedSightings(<<"h1", 80, "tcp">>) = 3
    /\ Cardinality(HistoryMatches(port_history, "h1", 80, "tcp")) = 1
    /\ SeenCount(port_history, <<"h1", 80, "tcp">>) = 3

====
